---- MODULE Spec2Model ----
(***************************************************************************)
(* Model of src/pages/Index.tsx: the Index component's state (messages,    *)
(* input, selectedImage, isLoading), its event handlers, and the streaming *)
(* SSE decoder inside handleSend.                                          *)
(*                                                                         *)
(* Text is a sequence of one-character strings, so that chunk boundaries   *)
(* can fall at every offset of a line and of a JSON token.                 *)
(***************************************************************************)
EXTENDS Integers, Sequences, FiniteSets, TLC

(***************************************************************************)
(* String primitives of JavaScript used by the decoder.                    *)
(***************************************************************************)
NL == "\n"
CR == "\r"
Q  == "\""

\* ECMAScript WhiteSpace and LineTerminator code points met in the model
WhiteSpace == {" ", "\t", NL, CR}

\* String.prototype.indexOf for a one-character needle; 0-based, -1 if absent
IndexOf(s, ch) ==
  LET hits == {i \in 1..Len(s) : s[i] = ch} IN
  IF hits = {} THEN -1 ELSE (CHOOSE i \in hits : \A j \in hits : i <= j) - 1

\* s.slice(0, n) for 0 <= n <= Len(s)
SliceTo(s, n) == SubSeq(s, 1, n)

\* s.slice(n) for n >= 0
SliceFrom(s, n) == IF n >= Len(s) THEN <<>> ELSE SubSeq(s, n + 1, Len(s))

StartsWith(s, p) == Len(s) >= Len(p) /\ SubSeq(s, 1, Len(p)) = p

EndsWith(s, p) == Len(s) >= Len(p) /\ SubSeq(s, Len(s) - Len(p) + 1, Len(s)) = p

RECURSIVE TrimStart(_)
TrimStart(s) ==
  IF s # <<>> /\ Head(s) \in WhiteSpace THEN TrimStart(Tail(s)) ELSE s

RECURSIVE TrimEnd(_)
TrimEnd(s) ==
  IF s # <<>> /\ s[Len(s)] \in WhiteSpace THEN TrimEnd(SubSeq(s, 1, Len(s) - 1)) ELSE s

\* String.prototype.trim
Trim(s) == TrimEnd(TrimStart(s))

(***************************************************************************)
(* JSON.parse, for JSON texts made of objects, arrays, strings without     *)
(* escapes and null, with optional white space around the whole text.      *)
(* A JavaScript value is a record tagged by t.                             *)
(***************************************************************************)
Undefined == [t |-> "undefined"]
JsNull    == [t |-> "null"]
JsStr(s)  == [t |-> "str", s |-> s]
JsArr(a)  == [t |-> "arr", a |-> a]
JsObj(m)  == [t |-> "obj", m |-> m]

ParseFail == [ok |-> FALSE, v |-> Undefined, rest |-> <<>>]
ParseOk(v, rest) == [ok |-> TRUE, v |-> v, rest |-> rest]

\* the characters of a string literal after its opening quote
RECURSIVE ParseChars(_, _)
ParseChars(s, acc) ==
  IF s = <<>> THEN ParseFail
  ELSE IF Head(s) = Q THEN ParseOk(JsStr(acc), Tail(s))
  ELSE IF Head(s) \in {"\\", NL, CR, "\t"} THEN ParseFail
  ELSE ParseChars(Tail(s), Append(acc, Head(s)))

RECURSIVE ParseValue(_)
RECURSIVE ParseMembers(_, _)
RECURSIVE ParseElements(_, _)

ParseValue(s) ==
  IF s = <<>> THEN ParseFail
  ELSE IF Head(s) = Q THEN ParseChars(Tail(s), <<>>)
  ELSE IF Head(s) = "{" THEN
    IF Len(s) >= 2 /\ s[2] = "}" THEN ParseOk(JsObj(<<>>), SliceFrom(s, 2))
    ELSE ParseMembers(Tail(s), <<>>)
  ELSE IF Head(s) = "[" THEN
    IF Len(s) >= 2 /\ s[2] = "]" THEN ParseOk(JsArr(<<>>), SliceFrom(s, 2))
    ELSE ParseElements(Tail(s), <<>>)
  ELSE IF StartsWith(s, <<"n", "u", "l", "l">>) THEN ParseOk(JsNull, SliceFrom(s, 4))
  ELSE ParseFail

\* key ":" value, then "," and more members, or "}"
ParseMembers(s, acc) ==
  LET k == ParseValue(s) IN
  IF ~k.ok \/ k.v.t # "str" \/ k.rest = <<>> \/ Head(k.rest) # ":" THEN ParseFail
  ELSE LET v == ParseValue(Tail(k.rest)) IN
    IF ~v.ok \/ v.rest = <<>> THEN ParseFail
    ELSE IF Head(v.rest) = "," THEN ParseMembers(Tail(v.rest), Append(acc, <<k.v.s, v.v>>))
    ELSE IF Head(v.rest) = "}" THEN ParseOk(JsObj(Append(acc, <<k.v.s, v.v>>)), Tail(v.rest))
    ELSE ParseFail

\* value, then "," and more elements, or "]"
ParseElements(s, acc) ==
  LET v == ParseValue(s) IN
  IF ~v.ok \/ v.rest = <<>> THEN ParseFail
  ELSE IF Head(v.rest) = "," THEN ParseElements(Tail(v.rest), Append(acc, v.v))
  ELSE IF Head(v.rest) = "]" THEN ParseOk(JsArr(Append(acc, v.v)), Tail(v.rest))
  ELSE ParseFail

\* JSON.parse(text): ok = FALSE stands for the SyntaxError it throws
JSONParse(text) ==
  LET r == ParseValue(Trim(text)) IN
  IF r.ok /\ r.rest = <<>> THEN r ELSE ParseFail

(***************************************************************************)
(* Property access with optional chaining, truthiness and string           *)
(* concatenation, as used on the parsed event.                             *)
(***************************************************************************)
\* obj[key] for an own property of an object literal; the last duplicate wins
RECURSIVE Lookup(_, _, _)
Lookup(m, key, i) ==
  IF i = 0 THEN Undefined
  ELSE IF m[i][1] = key THEN m[i][2]
  ELSE Lookup(m, key, i - 1)

\* v.key where v is neither null nor undefined
GetKey(v, key) ==
  IF v.t = "obj" THEN Lookup(v.m, key, Len(v.m)) ELSE Undefined

\* v[0] where v is neither null nor undefined
GetFirst(v) ==
  IF v.t = "arr" THEN (IF Len(v.a) >= 1 THEN v.a[1] ELSE Undefined)
  ELSE IF v.t = "str" THEN (IF Len(v.s) >= 1 THEN JsStr(<<v.s[1]>>) ELSE Undefined)
  ELSE IF v.t = "obj" THEN Lookup(v.m, <<"0">>, Len(v.m))
  ELSE Undefined

Nullish(v) == v.t \in {"null", "undefined"}

\* v?.key
OptKey(v, key) == IF Nullish(v) THEN Undefined ELSE GetKey(v, key)

\* v?.[0]
OptFirst(v) == IF Nullish(v) THEN Undefined ELSE GetFirst(v)

\* Truthy holding of every value
AlwaysTruthy(v) == TRUE

\* ToBoolean(v), as applied by if and by ||
Truthy(v) ==
  IF v.t = "str" THEN v.s # <<>>
  ELSE v.t \in {"arr", "obj"}

\* ToString(v) as applied by += on a string
RECURSIVE ToStr(_)
RECURSIVE JoinFrom(_, _)
ToStr(v) ==
  IF v.t = "str" THEN v.s
  ELSE IF v.t = "obj" THEN <<"[", "o", "b", "j", "e", "c", "t", " ", "O", "b", "j", "e", "c", "t", "]">>
  ELSE IF v.t = "arr" THEN JoinFrom(v.a, 1)
  ELSE IF v.t = "null" THEN <<"n", "u", "l", "l">>
  ELSE <<"u", "n", "d", "e", "f", "i", "n", "e", "d">>

\* Array.prototype.join(","): null and undefined elements give ""
JoinFrom(a, i) ==
  IF i > Len(a) THEN <<>>
  ELSE (IF Nullish(a[i]) THEN <<>> ELSE ToStr(a[i]))
       \o (IF i < Len(a) THEN <<",">> \o JoinFrom(a, i + 1) ELSE <<>>)

KeyChoices == <<"c", "h", "o", "i", "c", "e", "s">>
KeyDelta   == <<"d", "e", "l", "t", "a">>
KeyContent == <<"c", "o", "n", "t", "e", "n", "t">>

(***************************************************************************)
(* TextDecoder.decode(value, { stream: true }).  Bytes below 0x80 are      *)
(* written as the character they encode; the one multi-byte character of   *)
(* the model is U+00E9, encoded as the two bytes 0xC3 0xA9.  An incomplete *)
(* sequence at the end of a chunk is held back for the next call.          *)
(***************************************************************************)
ByteC3 == "0xC3"
ByteA9 == "0xA9"
CharE9 == "U+00E9"
CharFFFD == "U+FFFD"

\* the character produced at byte i of bytes, or Skip when byte i produces none:
\* a continuation byte consumed by its lead byte, or a lead byte waiting for the next chunk
Skip == "skip"

Utf8At(bytes, i) ==
  IF bytes[i] = ByteC3 THEN
    IF i = Len(bytes) THEN Skip
    ELSE IF bytes[i + 1] = ByteA9 THEN CharE9 ELSE CharFFFD
  ELSE IF bytes[i] = ByteA9 THEN
    IF i > 1 /\ bytes[i - 1] = ByteC3 THEN Skip ELSE CharFFFD
  ELSE bytes[i]

Utf8Decode(bytes) ==
  [text    |-> SelectSeq([i \in 1..Len(bytes) |-> Utf8At(bytes, i)], LAMBDA ch : ch # Skip),
   pending |-> IF bytes # <<>> /\ bytes[Len(bytes)] = ByteC3 THEN <<ByteC3>> ELSE <<>>]

\* decoder.decode(value, { stream: true }) with the bytes held back so far
Decode(pending, value) == Utf8Decode(pending \o value)

(***************************************************************************)
(* The line loop of handleSend (lines 110-140), run on the buffer after a  *)
(* chunk was appended.  published lists the accumulator values handed to   *)
(* setMessages, in order; sawDone tells that the loop left on the          *)
(* sentinel.                                                               *)
(***************************************************************************)
DataPrefix == <<"d", "a", "t", "a", ":", " ">>
DoneMarker == <<"[", "D", "O", "N", "E", "]">>

\* parsed.choices?.[0]?.delta?.content; parsed.choices throws on null
ContentOf(parsed) ==
  OptKey(OptKey(OptFirst(GetKey(parsed, KeyChoices)), KeyDelta), KeyContent)

\* IsSkipped without the test of the data prefix
IsSkippedNoPrefixTest(line) ==
  StartsWith(line, <<":">>) \/ Trim(line) = <<>>

\* the two continue statements (lines 116-117)
IsSkipped(line) ==
  \/ StartsWith(line, <<":">>) \/ Trim(line) = <<>>
  \/ ~StartsWith(line, DataPrefix)

\* AppendChunk assigning the chunk instead of appending it
ReplaceByChunk(textBuffer, text) == text

\* textBuffer += decoder.decode(...) (line 108)
AppendChunk(textBuffer, text) == textBuffer \o text

\* Accumulate keeping the new fragment only
ReplaceByFragment(assistantContent, content) == ToStr(content)

\* assistantContent += content (line 125)
Accumulate(assistantContent, content) == assistantContent \o ToStr(content)

\* PushBack dropping the line that failed
DropLine(line, rest) == rest

\* textBuffer = line + "\n" + textBuffer (line 137)
PushBack(line, rest) == line \o <<NL>> \o rest

LoopExit(buf, acc, published, sawDone) ==
  [textBuffer |-> buf, assistantContent |-> acc, published |-> published, sawDone |-> sawDone]

RECURSIVE LineLoop(_, _, _)
LineLoop(textBuffer, assistantContent, published) ==
  LET newlineIndex == IndexOf(textBuffer, NL) IN
  IF newlineIndex = -1 THEN LoopExit(textBuffer, assistantContent, published, FALSE)
  ELSE
    LET line0 == SliceTo(textBuffer, newlineIndex)
        rest  == SliceFrom(textBuffer, newlineIndex + 1)
        line  == IF EndsWith(line0, <<CR>>) THEN SliceTo(line0, Len(line0) - 1) ELSE line0
    IN
    IF IsSkipped(line) THEN LineLoop(rest, assistantContent, published)
    ELSE
      LET jsonStr == Trim(SliceFrom(line, 6)) IN
      IF jsonStr = DoneMarker THEN LoopExit(rest, assistantContent, published, TRUE)
      ELSE
        LET parsed == JSONParse(jsonStr) IN
        IF ~parsed.ok \/ parsed.v.t = "null"
        THEN LoopExit(PushBack(line, rest), assistantContent, published, FALSE)
        ELSE
          LET content == ContentOf(parsed.v) IN
          IF Truthy(content)
          THEN LineLoop(rest, Accumulate(assistantContent, content),
                        Append(published, Accumulate(assistantContent, content)))
          ELSE LineLoop(rest, assistantContent, published)

(***************************************************************************)
(* Response bodies the analysis endpoint may stream.  A stream is the      *)
(* bytes of its lines, each followed by a newline.                         *)
(***************************************************************************)
Quote(s) == <<Q>> \o s \o <<Q>>

\* {"choices":[{"delta":<delta>}]}
EventJson(delta) ==
  <<"{">> \o Quote(KeyChoices) \o <<":", "[", "{">> \o Quote(KeyDelta) \o <<":">> \o delta
    \o <<"}", "]", "}">>

\* data: {"choices":[{"delta":{"content":"<fragment>"}}]}
DataLine(fragment) ==
  DataPrefix \o EventJson(<<"{">> \o Quote(KeyContent) \o <<":">> \o Quote(fragment) \o <<"}">>)

LineA         == DataLine(<<"a">>)
LineB         == DataLine(<<"b">>)
LineCat       == DataLine(<<"c", "a", "t">>)
LineE9        == DataLine(<<ByteC3, ByteA9>>)
LineEmpty     == DataLine(<<>>)
LineNoContent == DataPrefix \o EventJson(<<"{", "}">>)
LineBad       == DataPrefix \o <<"{">> \o Quote(KeyChoices) \o <<":">>
LineDone      == DataPrefix \o DoneMarker
LineComment   == <<":", "k">>
LineBlank     == <<>>
LineEvent     == <<"e", "v", ":", "x">>

RECURSIVE StreamOf(_)
StreamOf(lines) ==
  IF lines = <<>> THEN <<>> ELSE Head(lines) \o <<NL>> \o StreamOf(Tail(lines))

\* the stream cut before its last byte: its last line is not terminated
Unterminated(stream) == SliceTo(stream, Len(stream) - 1)

Streams ==
  { StreamOf(<<>>),
    StreamOf(<<LineA, LineB>>),
    StreamOf(<<LineCat>>),
    StreamOf(<<LineE9>>),
    StreamOf(<<LineComment, LineA \o <<CR>>, LineBlank>>),
    StreamOf(<<LineEvent, <<CR>>, LineB>>),
    StreamOf(<<LineA, LineDone, LineBlank>>),
    StreamOf(<<LineA, LineDone \o <<CR>>, LineB>>),
    StreamOf(<<LineEmpty, LineA>>),
    StreamOf(<<LineNoContent, LineB>>),
    StreamOf(<<LineBad, LineA>>),
    StreamOf(<<LineB, LineBad \o <<CR>>, LineA>>),
    Unterminated(StreamOf(<<LineA, LineB>>)) }

\* the response bodies met when the whole component is explored
SampleStreams ==
  { StreamOf(<<LineA>>) }

(***************************************************************************)
(* Component state (lines 16-19) and the asynchronous activities.          *)
(***************************************************************************)
VARIABLES
  messages,       \* useState<Message[]>([])
  input,          \* useState("")
  selectedImage,  \* useState<string | null>(null)
  isLoading,      \* useState(false)
  pendingReads,   \* FileReader loads started by handleImageSelect, not yet fired
  calls,          \* the handleSend invocations that passed validation
  toast           \* the toast.error text emitted by the last step, or NoToast

vars == <<messages, input, selectedImage, isLoading, pendingReads, calls, toast>>

\* the number of handleSend invocations that pass validation in a behaviour
MaxSends == 2


Null == "null"
NoImage == "undefined"
\* a toast text is a text like the others; the empty text stands for no toast
NoToast == <<>>

\* data URIs that FileReader.readAsDataURL can produce
Images == {"data:image/png;base64,AAAA"}

\* texts the user can type into the text area
Inputs == {<<>>, <<" ">>, <<"h", "i", " ">>}

DefaultPrompt == <<"What's in this image?">>

MsgEmpty      == <<"Please upload an image or enter a message">>
MsgNoImage    == <<"Please upload an image to analyze">>
MsgGeneric    == <<"Failed to analyze image">>
MsgNotImage   == <<"Please select an image file">>
MsgTooLarge   == <<"Image size must be less than 20MB">>
MsgRateLimit  == <<"r", "a", "t", "e", " ", "l", "i", "m", "i", "t", "e", "d">>
MsgFetch      == <<"Failed to fetch">>
MsgRead       == <<"network error">>

Init ==
  /\ messages = <<>>
  /\ input = <<>>
  /\ selectedImage = Null
  /\ isLoading = FALSE
  /\ pendingReads = {}
  /\ calls = <<>>
  /\ toast = NoToast

(***************************************************************************)
(* Image selection (lines 31-49, 264-267) and the text area (line 293).    *)
(***************************************************************************)
MaxFileSize == 20 * 1024 * 1024

ImageType == <<"i", "m", "a", "g", "e", "/", "p", "n", "g">>
TextType  == <<"t", "e", "x", "t", "/", "p", "l", "a", "i", "n">>

\* the files a user may pick: media type, size in bytes, and the data URI of the content
Files ==
  [type : {ImageType, TextType}, size : {MaxFileSize, MaxFileSize + 1}, url : Images]

\* FileError without the test of the size
FileErrorTypeOnly(file) ==
  IF ~StartsWith(file.type, <<"i", "m", "a", "g", "e", "/">>) THEN MsgNotImage ELSE NoToast

\* the two returns of handleImageSelect (lines 34-41): the toast text, or NoToast
\* when the file is read
FileError(file) ==
  IF ~StartsWith(file.type, <<"i", "m", "a", "g", "e", "/">>) THEN MsgNotImage
  ELSE IF file.size > MaxFileSize THEN MsgTooLarge
  ELSE NoToast

\* onChange of the hidden file input; the picker is opened by the Upload button (line 286)
handleImageSelect(file) ==
  /\ ~isLoading
  /\ toast' = FileError(file)
  /\ IF FileError(file) # NoToast
     THEN UNCHANGED pendingReads
     ELSE pendingReads' = pendingReads \cup {file.url}
  /\ UNCHANGED <<messages, input, selectedImage, isLoading, calls>>

\* reader.onload (lines 44-46)
ReaderOnLoad(url) ==
  /\ url \in pendingReads
  /\ pendingReads' = pendingReads \ {url}
  /\ selectedImage' = url
  /\ toast' = NoToast
  /\ UNCHANGED <<messages, input, isLoading, calls>>

\* the remove button of the preview, rendered while an image is selected
RemoveImage ==
  /\ selectedImage # Null
  /\ selectedImage' = Null
  /\ toast' = NoToast
  /\ UNCHANGED <<messages, input, isLoading, pendingReads, calls>>

\* onChange of the text area, which is disabled while loading
SetInput(value) ==
  /\ ~isLoading
  /\ value # input
  /\ input' = value
  /\ toast' = NoToast
  /\ UNCHANGED <<messages, selectedImage, isLoading, pendingReads, calls>>

(***************************************************************************)
(* handleSend (lines 51-154).  It runs without suspension up to the fetch, *)
(* then resumes once per settled await.                                    *)
(***************************************************************************)
\* SendEnabled without the disabled attributes' test of isLoading
SendEnabledWhileLoading(trigger) ==
  IF trigger = "click" THEN selectedImage # Null ELSE TRUE

\* the send button (line 308) and Enter in the text area (lines 297-303)
SendEnabled(trigger) ==
  IF trigger = "click" THEN ~(isLoading \/ selectedImage = Null) ELSE ~isLoading

\* ValidationError without the second return
ValidationErrorFirstOnly(image, text) ==
  IF image = Null /\ Trim(text) = <<>> THEN MsgEmpty ELSE NoToast

\* the two validation returns (lines 52-60): the toast text, or NoToast when the send goes on
ValidationError(image, text) ==
  IF image = Null /\ Trim(text) = <<>> THEN MsgEmpty
  ELSE IF image = Null THEN MsgNoImage
  ELSE NoToast

\* x || y on texts
OrElse(x, y) == IF x # <<>> THEN x ELSE y

\* UserMessage without the image
UserMessageWithoutImage(image, text) ==
  [role |-> "user", content |-> OrElse(Trim(text), DefaultPrompt), imageUrl |-> NoImage]

\* the user message of lines 62-66
UserMessage(image, text) ==
  [role |-> "user", content |-> OrElse(Trim(text), DefaultPrompt), imageUrl |-> image]

\* the placeholder of lines 72-76 and its updates (lines 129-132)
AssistantMessage(content) ==
  [role |-> "assistant", content |-> content, imageUrl |-> NoImage]

\* SetLast writing the element before the last
SetBeforeLast(prev, content) ==
  IF Len(prev) < 2 THEN prev
  ELSE [prev EXCEPT ![Len(prev) - 1] = AssistantMessage(content)]

\* SetLast appending the update as a new message
AppendUpdate(prev, content) == Append(prev, AssistantMessage(content))

\* the updater of lines 127-134
SetLast(prev, content) ==
  IF prev = <<>> THEN prev
  ELSE [prev EXCEPT ![Len(prev)] = AssistantMessage(content)]

RECURSIVE ApplyUpdates(_, _)
ApplyUpdates(prev, published) ==
  IF published = <<>> THEN prev
  ELSE ApplyUpdates(SetLast(prev, Head(published)), Tail(published))

\* DropLast keeping the placeholder
DropNothing(prev) == prev

\* DropLast removing the user message as well
DropLastTwo(prev) == IF Len(prev) < 2 THEN <<>> ELSE SubSeq(prev, 1, Len(prev) - 2)

\* prev.slice(0, -1) (line 150)
DropLast(prev) == IF prev = <<>> THEN prev ELSE SubSeq(prev, 1, Len(prev) - 1)

\* the value of the local response before the fetch has settled
NoResponse == [ok |-> FALSE, hasBody |-> FALSE, body |-> <<>>]

\* the local state of an invocation suspended at the fetch
NewCall(before, image, text) ==
  [pc |-> "fetching", outcome |-> "pending",
   request |-> [imageBase64 |-> image, prompt |-> Trim(text)],
   stream |-> <<>>, pos |-> 0, pending |-> <<>>,
   textBuffer |-> <<>>, assistantContent |-> <<>>,
   sawDone |-> FALSE, midJson |-> FALSE, response |-> NoResponse, errorData |-> Undefined,
   before |-> before, userMessage |-> UserMessage(image, text)]

\* an invocation that returned; its locals are dead, and the body it read to the
\* end stays on record
Finished(c, outcome) ==
  [c EXCEPT !.pc = "done", !.outcome = outcome,
            !.stream = IF outcome = "success" THEN @ ELSE <<>>, !.pos = 0,
            !.pending = <<>>, !.textBuffer = <<>>, !.sawDone = FALSE, !.midJson = FALSE,
            !.response = NoResponse, !.errorData = Undefined]

handleSend(trigger) ==
  /\ SendEnabled(trigger)
  /\ LET error == ValidationError(selectedImage, input) IN
     IF error # NoToast
     THEN /\ toast' = error
          /\ UNCHANGED <<messages, input, selectedImage, isLoading, pendingReads, calls>>
     ELSE /\ Len(calls) < MaxSends
          /\ messages' = Append(Append(messages, UserMessage(selectedImage, input)),
                                AssistantMessage(<<>>))
          /\ input' = <<>>
          /\ isLoading' = TRUE
          /\ calls' = Append(calls, NewCall(messages, selectedImage, input))
          /\ toast' = NoToast
          /\ UNCHANGED <<selectedImage, pendingReads>>

\* Fail without the finally block
FailWithoutFinally(i, message) ==
  /\ toast' = message
  /\ messages' = DropLast(messages)
  /\ calls' = [calls EXCEPT ![i] = Finished(@, "failed")]
  /\ UNCHANGED <<input, selectedImage, isLoading, pendingReads>>

\* the catch and finally blocks (lines 147-153)
Fail(i, message) ==
  /\ toast' = message
  /\ messages' = DropLast(messages)
  /\ isLoading' = FALSE
  /\ calls' = [calls EXCEPT ![i] = Finished(@, "failed")]
  /\ UNCHANGED <<input, selectedImage, pendingReads>>

\* fetch rejects (line 80)
FetchRejects(i) ==
  /\ calls[i].pc = "fetching"
  /\ Fail(i, MsgFetch)

KeyError == <<"e", "r", "r", "o", "r">>

\* {"error":"<message>"}
ErrorJson(message) == <<"{">> \o Quote(KeyError) \o <<":">> \o Quote(message) \o <<"}">>

\* the responses that take the error path: a non-success status with a body that
\* is a JSON error object, with or without a message, or is not JSON, or is
\* empty; and a response of either status without a body
Responses ==
  [ok : {FALSE}, hasBody : {TRUE},
   body : { ErrorJson(MsgRateLimit), ErrorJson(<<>>), <<"{", "}">>, <<"o", "o", "p", "s">>, <<>> }]
  \cup [ok : BOOLEAN, hasBody : {FALSE}, body : {<<>>}]

\* response.json().catch(() => ({})) (line 96): the body parsed as JSON, or {}
ResponseJson(response) ==
  LET r == JSONParse(response.body) IN
  IF response.hasBody /\ r.ok THEN r.v ELSE JsObj(<<>>)

\* a response with a non-success status or without a body: handleSend goes on to
\* read the body as JSON and is suspended until errorData is there (lines 95-96)
FetchError(i, response) ==
  /\ calls[i].pc = "fetching"
  /\ ~response.ok \/ ~response.hasBody
  /\ calls' = [calls EXCEPT ![i] = [@ EXCEPT !.pc = "json", !.response = response,
                                               !.errorData = ResponseJson(response)]]
  /\ toast' = NoToast
  /\ UNCHANGED <<messages, input, selectedImage, isLoading, pendingReads>>

\* ErrorMessage without the message of the server
ErrorMessageGenericOnly(errorData) == MsgGeneric

\* errorData.error || "Failed to analyze image", as the message of the Error (line 97)
ErrorMessage(errorData) ==
  LET error == GetKey(errorData, KeyError) IN
  IF Truthy(error) THEN ToStr(error) ELSE MsgGeneric

\* the await of line 96 settled: the Error is thrown and caught (lines 97, 147-153)
ErrorThrown(i) ==
  /\ calls[i].pc = "json"
  /\ Fail(i, ErrorMessage(calls[i].errorData))

\* a success response with a body: the reader and the decoder are set up (lines 100-102)
FetchStream(i, stream) ==
  /\ calls[i].pc = "fetching"
  /\ calls' = [calls EXCEPT ![i] = [@ EXCEPT !.pc = "reading", !.stream = stream]]
  /\ toast' = NoToast
  /\ UNCHANGED <<messages, input, selectedImage, isLoading, pendingReads>>

\* the text after the last newline of a buffer
RECURSIVE LastPartial(_)
LastPartial(buf) ==
  LET n == IndexOf(buf, NL) IN IF n = -1 THEN buf ELSE LastPartial(SliceFrom(buf, n + 1))

\* the chunk boundary at the end of buf falls inside the JSON payload of a data line
InsideJson(buf) ==
  LET partial == LastPartial(buf) IN
  StartsWith(partial, DataPrefix) /\ Len(partial) > Len(DataPrefix)

\* reader.read() yields the next n bytes; one pass of the loop body (lines 105-140)
ReadChunk(i, n) ==
  /\ calls[i].pc = "reading"
  /\ n \in 1..(Len(calls[i].stream) - calls[i].pos)
  /\ \E decoded \in {Decode(calls[i].pending,
                               SubSeq(calls[i].stream, calls[i].pos + 1, calls[i].pos + n))} :
     \E loop \in {LineLoop(AppendChunk(calls[i].textBuffer, decoded.text),
                              calls[i].assistantContent, <<>>)} :
       /\ messages' = ApplyUpdates(messages, loop.published)
       /\ calls' = [calls EXCEPT ![i] =
            [@ EXCEPT !.pos = @ + n,
                      !.pending = decoded.pending,
                      !.textBuffer = loop.textBuffer,
                      !.assistantContent = loop.assistantContent,
                      !.sawDone = @ \/ loop.sawDone,
                      !.midJson = @ \/ InsideJson(loop.textBuffer)]]
  /\ toast' = NoToast
  /\ UNCHANGED <<input, selectedImage, isLoading, pendingReads>>

\* ReadDone taking what is left in the buffer for a last line
ReadDoneFlushes(i) ==
  /\ calls[i].pc = "reading"
  /\ calls[i].pos = Len(calls[i].stream)
  /\ \E loop \in {LineLoop(calls[i].textBuffer \o <<NL>>, calls[i].assistantContent, <<>>)} :
       /\ messages' = ApplyUpdates(messages, loop.published)
       /\ calls' = [calls EXCEPT ![i] =
                      Finished([@ EXCEPT !.assistantContent = loop.assistantContent], "success")]
  /\ selectedImage' = Null
  /\ isLoading' = FALSE
  /\ toast' = NoToast
  /\ UNCHANGED <<input, pendingReads>>

\* ReadDone without setSelectedImage(null)
ReadDoneKeepsImage(i) ==
  /\ calls[i].pc = "reading"
  /\ calls[i].pos = Len(calls[i].stream)
  /\ isLoading' = FALSE
  /\ calls' = [calls EXCEPT ![i] = Finished(@, "success")]
  /\ toast' = NoToast
  /\ UNCHANGED <<messages, input, selectedImage, pendingReads>>

\* reader.read() reports done: the loop is left and the send succeeds (lines 106, 143-153)
ReadDone(i) ==
  /\ calls[i].pc = "reading"
  /\ calls[i].pos = Len(calls[i].stream)
  /\ selectedImage' = Null
  /\ isLoading' = FALSE
  /\ calls' = [calls EXCEPT ![i] = Finished(@, "success")]
  /\ toast' = NoToast
  /\ UNCHANGED <<messages, input, pendingReads>>

\* reader.read() rejects (line 105)
ReadError(i) ==
  /\ calls[i].pc = "reading"
  /\ Fail(i, MsgRead)

\* the component: user events interleaved with the suspended invocations
Next ==
  \/ \E file \in Files : handleImageSelect(file)
  \/ \E url \in Images : ReaderOnLoad(url)
  \/ RemoveImage
  \/ \E value \in Inputs : SetInput(value)
  \/ \E trigger \in {"click", "enter"} : handleSend(trigger)
  \/ \E i \in DOMAIN calls : FetchRejects(i)
  \/ \E i \in DOMAIN calls, response \in Responses : FetchError(i, response)
  \/ \E i \in DOMAIN calls : ErrorThrown(i)
  \/ \E i \in DOMAIN calls, stream \in SampleStreams : FetchStream(i, stream)
  \/ \E i \in DOMAIN calls : \E n \in 1..Len(calls[i].stream) : ReadChunk(i, n)
  \/ \E i \in DOMAIN calls : ReadDone(i)
  \/ \E i \in DOMAIN calls : ReadError(i)

Spec == Init /\ [][Next]_vars

\* the last await of an invocation in flight settles: the request fails, or the
\* transport reports the end of the stream or an error
Settle ==
  \E i \in DOMAIN calls :
    \/ FetchRejects(i)
    \/ ErrorThrown(i)
    \/ ReadDone(i)
    \/ ReadError(i)

\* the transport does not stay silent for ever
LiveSpec == Spec /\ WF_vars(Settle)

(***************************************************************************)
(* The decoder on its own: one send, accepted from the initial transcript  *)
(* with an image selected, over every response body of Streams.            *)
(***************************************************************************)
InitDecoder ==
  \E image \in Images, text \in Inputs :
    /\ messages = <<UserMessage(image, text), AssistantMessage(<<>>)>>
    /\ input = <<>>
    /\ selectedImage = image
    /\ isLoading = TRUE
    /\ pendingReads = {}
    /\ calls = <<NewCall(<<>>, image, text)>>
    /\ toast = NoToast

NextDecoder ==
  \/ FetchRejects(1)
  \/ \E response \in Responses : FetchError(1, response)
  \/ ErrorThrown(1)
  \/ \E stream \in Streams : FetchStream(1, stream)
  \/ \E n \in 1..Len(calls[1].stream) : ReadChunk(1, n)
  \/ ReadDone(1)
  \/ ReadError(1)

SpecDecoder == InitDecoder /\ [][NextDecoder]_vars

(***************************************************************************)
(* Properties of the decoder, checked under SpecDecoder.                   *)
(***************************************************************************)
\* the invocations suspended at reader.read()
Reading == {i \in DOMAIN calls : calls[i].pc = "reading"}

\* every byte of the body was delivered: the next read reports done
Delivered(i) == calls[i].pc = "reading" /\ calls[i].pos = Len(calls[i].stream)

\* the lines of a text that are terminated by a newline, without the newline
RECURSIVE CompleteLines(_)
CompleteLines(text) ==
  LET n == IndexOf(text, NL) IN
  IF n = -1 THEN <<>> ELSE <<SliceTo(text, n)>> \o CompleteLines(SliceFrom(text, n + 1))

StripCR(line) == IF EndsWith(line, <<CR>>) THEN SliceTo(line, Len(line) - 1) ELSE line

\* the JSON payload of a data line that is not the sentinel is a JSON text
WellFormedLine(line) ==
  StartsWith(StripCR(line), DataPrefix) =>
    \/ Trim(SliceFrom(StripCR(line), 6)) = DoneMarker
    \/ JSONParse(Trim(SliceFrom(StripCR(line), 6))).ok

\* a body of newline-terminated lines that are all well-formed
WellFormed(stream) ==
  /\ stream = <<>> \/ stream[Len(stream)] = NL
  /\ \A k \in DOMAIN CompleteLines(stream) : WellFormedLine(CompleteLines(stream)[k])

\* the text handleSend accumulates when the whole body arrives as one chunk
SingleChunkText(stream) ==
  LineLoop(AppendChunk(<<>>, Decode(<<>>, stream).text), <<>>, <<>>).assistantContent

\* C1: for a well-formed body, whatever the chunks it was delivered in, the text
\* accumulated when the transport reports end-of-stream is the text accumulated
\* when the body is delivered as one chunk.
C1_ChunkingIndependent ==
  \A i \in DOMAIN calls :
    (Delivered(i) /\ WellFormed(calls[i].stream)) =>
      calls[i].assistantContent = SingleChunkText(calls[i].stream)

\* C2: once the sentinel line was extracted, no later read changes the
\* accumulated text or the transcript.
C2_StopsAtDone ==
  [][\A i \in DOMAIN calls :
       (calls[i].pc = "reading" /\ calls[i].sawDone /\ calls'[i].pc = "reading") =>
         (calls'[i].assistantContent = calls[i].assistantContent /\ messages' = messages)]_vars

\* the fragment each data line of the response bodies carries
FragmentOf(line) ==
  IF line = LineA THEN <<"a">>
  ELSE IF line = LineB THEN <<"b">>
  ELSE IF line = LineCat THEN <<"c", "a", "t">>
  ELSE IF line = LineE9 THEN <<CharE9>>
  ELSE <<>>

RECURSIVE Fragments(_)
Fragments(lines) ==
  IF lines = <<>> THEN <<>> ELSE FragmentOf(StripCR(Head(lines))) \o Fragments(Tail(lines))

\* a body without the sentinel in which every data line carries a JSON text
Unbroken(stream) ==
  \A k \in DOMAIN CompleteLines(stream) :
    /\ WellFormedLine(CompleteLines(stream)[k])
    /\ StripCR(CompleteLines(stream)[k]) # LineDone

\* C7: whatever the offsets at which the JSON payloads of the data lines were
\* cut, the accumulated text is the fragments of the lines whose newline has
\* arrived, each exactly once and in order.
C7_NoFragmentLost ==
  \A i \in Reading :
    Unbroken(calls[i].stream) =>
      calls[i].assistantContent = Fragments(CompleteLines(SliceTo(calls[i].stream, calls[i].pos)))

\* the payload of the "cat" line was cut by a chunk boundary and "cat" was accumulated
C7_Witness ==
  \E i \in Reading :
    /\ calls[i].stream = StreamOf(<<LineCat>>)
    /\ calls[i].midJson
    /\ calls[i].assistantContent = <<"c", "a", "t">>

\* a line C8 speaks of: a comment, a blank line, or a line without the data prefix
Ignorable(line) ==
  \/ StartsWith(StripCR(line), <<":">>)
  \/ StripCR(line) = <<>>
  \/ ~StartsWith(StripCR(line), DataPrefix)

\* a text without its terminated lines that are ignorable
RECURSIVE WithoutIgnorable(_)
WithoutIgnorable(text) ==
  LET n == IndexOf(text, NL) IN
  IF n = -1 THEN text
  ELSE IF Ignorable(SliceTo(text, n)) THEN WithoutIgnorable(SliceFrom(text, n + 1))
  ELSE SliceTo(text, n + 1) \o WithoutIgnorable(SliceFrom(text, n + 1))

\* the buffer the line loop starts from in a step that reads a chunk
BufferRead(i) ==
  calls[i].textBuffer
    \o Decode(calls[i].pending, SubSeq(calls[i].stream, calls[i].pos + 1, calls'[i].pos)).text

\* C8: in every read whose buffer holds comment lines, blank lines or lines
\* without the data prefix, the accumulated text and the transcript come out as
\* if those lines were not in the buffer: they change nothing and the lines
\* after them are processed.
C8_IgnoredLinesInert ==
  [][\A i \in DOMAIN calls :
       (calls[i].pc = "reading" /\ calls'[i].pc = "reading") =>
         \A buffer \in {BufferRead(i)} :
           \A stripped \in {WithoutIgnorable(buffer)} \ {buffer} :
             \A loop \in {LineLoop(stripped, calls[i].assistantContent, <<>>)} :
               /\ calls'[i].assistantContent = loop.assistantContent
               /\ messages' = ApplyUpdates(messages, loop.published)]_vars

\* a data line that follows ignorable lines was accumulated after a cut inside it
C8_Witness ==
  \E i \in Reading :
    /\ calls[i].stream \in { StreamOf(<<LineComment, LineA \o <<CR>>, LineBlank>>),
                             StreamOf(<<LineEvent, <<CR>>, LineB>>) }
    /\ calls[i].midJson
    /\ calls[i].assistantContent # <<>>

(***************************************************************************)
(* Properties of the send orchestration, checked under Spec and LiveSpec.  *)
(***************************************************************************)
\* the invocations that have not returned
InFlight == {i \in DOMAIN calls : calls[i].pc # "done"}

\* C3: when a send has failed, the transcript is the transcript before the
\* send followed by the user message of the send, which carries its image.
C3_FailureRollsBack ==
  \A i \in DOMAIN calls :
    (i = Len(calls) /\ calls[i].pc = "done" /\ calls[i].outcome = "failed") =>
      /\ messages = Append(calls[i].before, calls[i].userMessage)
      /\ calls[i].userMessage.role = "user"
      /\ calls[i].userMessage.imageUrl = calls[i].request.imageBase64
      /\ calls[i].userMessage.imageUrl \in Images

\* a send failed after content was published, with an earlier turn in the transcript
C3_Witness ==
  \E i \in DOMAIN calls :
    /\ i = Len(calls) /\ calls[i].pc = "done" /\ calls[i].outcome = "failed"
    /\ calls[i].assistantContent # <<>>
    /\ calls[i].before # <<>>

\* C4: at most one send is in flight, and one is in flight exactly while the
\* loading flag is set.
C4_OneSendInFlight ==
  /\ Cardinality(InFlight) <= 1
  /\ isLoading <=> InFlight # {}

\* a stream is being read while an image is selected and another send is allowed
C4_Witness ==
  \E i \in Reading :
    /\ calls[i].pos > 0 /\ calls[i].pos < Len(calls[i].stream)
    /\ selectedImage # Null
    /\ Len(calls) < MaxSends

\* C5: a read that publishes content finds the placeholder of its own send as
\* the last element of the transcript and replaces that element only.
C5_UpdatesTargetPlaceholder ==
  [][\A i \in DOMAIN calls :
       (calls[i].pc = "reading" /\ calls'[i].assistantContent # calls[i].assistantContent) =>
         /\ Len(messages) = Len(calls[i].before) + 2
         /\ messages[Len(messages)].role = "assistant"
         /\ messages[Len(messages)].content = calls[i].assistantContent
         /\ messages' = [messages EXCEPT ![Len(messages)] =
                           AssistantMessage(calls'[i].assistantContent)]]_vars

\* content was published in the send of a second turn
C5_Witness ==
  \E i \in Reading :
    /\ calls[i].before # <<>>
    /\ calls[i].assistantContent # <<>>
    /\ messages[Len(messages)] = AssistantMessage(calls[i].assistantContent)

\* C6: no send starts while no image is selected, and a rejected send changes
\* nothing but the toast.
C6_NoImageRejected ==
  [][/\ selectedImage = Null => (Len(calls') = Len(calls) /\ Len(messages') <= Len(messages))
     /\ toast' \in {MsgEmpty, MsgNoImage} =>
          UNCHANGED <<messages, input, selectedImage, isLoading, pendingReads, calls>>]_vars

\* a send with text but without an image was rejected
C6_Witness ==
  /\ toast = MsgNoImage
  /\ selectedImage = Null
  /\ Trim(input) # <<>>
  /\ calls = <<>>

\* C9: a send that set the loading flag clears it again.
C9_ReturnsToIdle == isLoading ~> ~isLoading

\* idle again after a send that failed and a send that succeeded
C9_Witness ==
  /\ ~isLoading
  /\ \E i \in DOMAIN calls : calls[i].outcome = "failed"
  /\ \E i \in DOMAIN calls : calls[i].outcome = "success"

\* C10: no step changes, reorders or removes a message that is not the last
\* element, nor a user message.
C10_AppendOnly ==
  [][\A k \in DOMAIN messages :
       (k < Len(messages) \/ messages[k].role = "user") =>
         (k <= Len(messages') /\ messages'[k] = messages[k])]_vars

\* the rollback of a second turn left the first turn and the new user message
C10_Witness ==
  /\ Len(messages) = 3
  /\ messages[2].role = "assistant" /\ messages[2].content # <<>>
  /\ messages[3].role = "user"
  /\ ~isLoading

\* the message the server put in the body of a response: the error string of the
\* JSON error object, when the response has one with a text in it
ServerMessage(response) ==
  IF response.hasBody /\ response.body = ErrorJson(MsgRateLimit) THEN MsgRateLimit ELSE <<>>

C12_UploadConstraint ==
  [][/\ \A file \in Files :
          handleImageSelect(file) =>
            IF file.type # ImageType \/ file.size > 20 * 1024 * 1024
            THEN /\ toast' \in {MsgNotImage, MsgTooLarge}
                 /\ UNCHANGED <<messages, input, selectedImage, isLoading, pendingReads, calls>>
            ELSE /\ toast' = NoToast
                 /\ file.url \in pendingReads'
                 /\ UNCHANGED <<messages, input, selectedImage, isLoading, calls>>
     /\ \A url \in pendingReads \ pendingReads' : selectedImage' = url]_vars

\* a file over the limit was rejected after a turn, while an accepted image was selected
C12_Witness ==
  /\ toast = MsgTooLarge
  /\ selectedImage \in Images
  /\ messages # <<>>

(***************************************************************************)
(* Further properties of the decoder, checked under SpecDecoder.           *)
(***************************************************************************)
\* the lines of the body of an invocation, terminated or not, as sent
BodyLines(i) == CompleteLines(calls[i].stream \o <<NL>>)

\* C13: in every read the accumulated text and the content of the placeholder
\* grow at the end only, the placeholder shows the whole accumulated text, and
\* that text is the fragments of the first lines of the body, each once and in
\* the order of the lines.
C13_PublishesAccumulator ==
  [][\A i \in DOMAIN calls :
       (calls[i].pc = "reading" /\ calls'[i].pc = "reading") =>
         /\ StartsWith(calls'[i].assistantContent, calls[i].assistantContent)
         /\ StartsWith(messages'[Len(messages')].content, messages[Len(messages)].content)
         /\ messages'[Len(messages')].content = calls'[i].assistantContent
         /\ \E k \in 0..Len(BodyLines(i)) :
              calls'[i].assistantContent = Fragments(SubSeq(BodyLines(i), 1, k))]_vars

\* "a" and then "ab" were published, the second after a cut inside a payload
C13_Witness ==
  \E i \in Reading :
    /\ calls[i].stream = StreamOf(<<LineA, LineB>>)
    /\ calls[i].midJson
    /\ messages[Len(messages)] = AssistantMessage(<<"a", "b">>)

\* C14: when every byte was delivered, the buffer still holds text, and the
\* transport reports the end of the stream, the send ends as a success: no
\* toast, the loading flag cleared, the transcript as it was with the placeholder
\* as its last element, and nothing of the buffer added to the accumulated text.
C14_EndOfStreamSucceeds ==
  [][\A i \in DOMAIN calls :
       (Delivered(i) /\ calls[i].textBuffer # <<>> /\ calls'[i].pc = "done" /\ toast' # MsgRead) =>
         /\ calls'[i].outcome = "success"
         /\ toast' = NoToast
         /\ ~isLoading'
         /\ messages' = messages
         /\ messages'[Len(messages')] = AssistantMessage(calls[i].assistantContent)
         /\ calls'[i].assistantContent = calls[i].assistantContent]_vars

\* the body ended inside the line of "b": the send succeeded with "a" alone
C14_Witness ==
  \E i \in DOMAIN calls :
    /\ calls[i].pc = "done" /\ calls[i].outcome = "success"
    /\ calls[i].stream = Unterminated(StreamOf(<<LineA, LineB>>))
    /\ messages[Len(messages)] = AssistantMessage(<<"a">>)
    /\ toast = NoToast

\* a line C17 speaks of: a data line whose JSON object has an empty content or none
EmptyEvent(line) == StripCR(line) \in {LineEmpty, LineNoContent}

\* a text without its terminated lines that are empty events
RECURSIVE WithoutEmptyEvents(_)
WithoutEmptyEvents(text) ==
  LET n == IndexOf(text, NL) IN
  IF n = -1 THEN text
  ELSE IF EmptyEvent(SliceTo(text, n)) THEN WithoutEmptyEvents(SliceFrom(text, n + 1))
  ELSE SliceTo(text, n + 1) \o WithoutEmptyEvents(SliceFrom(text, n + 1))

\* C17: in every read whose buffer holds a data line with a JSON object without
\* content, or with the empty string as content, the accumulated text and the
\* transcript come out as if that line were not in the buffer: it adds nothing
\* and the lines after it are processed.
C17_EmptyContentInert ==
  [][\A i \in DOMAIN calls :
       (calls[i].pc = "reading" /\ calls'[i].pc = "reading") =>
         \A buffer \in {BufferRead(i)} :
           \A stripped \in {WithoutEmptyEvents(buffer)} \ {buffer} :
             \A loop \in {LineLoop(stripped, calls[i].assistantContent, <<>>)} :
               /\ calls'[i].assistantContent = loop.assistantContent
               /\ messages' = ApplyUpdates(messages, loop.published)
               /\ calls'[i].textBuffer = loop.textBuffer]_vars

\* the line after an event without content was accumulated, and nothing else
C17_Witness ==
  \E i \in Reading :
    /\ calls[i].stream = StreamOf(<<LineNoContent, LineB>>)
    /\ calls[i].assistantContent = <<"b">>
    /\ messages[Len(messages)] = AssistantMessage(<<"b">>)

\* the first line of a buffer that holds a newline
HeadLine(buf) == SliceTo(buf, IndexOf(buf, NL))

\* the buffer of an invocation starts with a terminated data line that is neither
\* the sentinel nor a JSON text
Blocked(c) ==
  /\ c.pc = "reading"
  /\ IndexOf(c.textBuffer, NL) # -1
  /\ ~WellFormedLine(HeadLine(c.textBuffer))

\* the lines whose newline was delivered to an invocation
Arrived(c) == CompleteLines(SliceTo(c.stream, c.pos))

\* the position of the first arrived data line that is not a JSON text, when no
\* sentinel came before it
FirstBad(c) ==
  {k \in DOMAIN Arrived(c) :
     /\ ~WellFormedLine(Arrived(c)[k])
     /\ \A j \in 1..(k - 1) :
          WellFormedLine(Arrived(c)[j]) /\ StripCR(Arrived(c)[j]) # LineDone}

\* C18: once the newline of a data line that does not parse has arrived, that
\* line is at the front of the buffer and the accumulated text is the fragments
\* of the lines before it; every later read leaves the line there and changes
\* neither the accumulated text nor the transcript, whatever lines it brings;
\* and when the transport reports the end of the stream the send succeeds.
C18_HeadOfLineBlocking ==
  [][\A i \in DOMAIN calls :
       /\ calls'[i].pc = "reading" =>
            \A k \in FirstBad(calls'[i]) :
              /\ Blocked(calls'[i])
              /\ calls'[i].assistantContent = Fragments(SubSeq(Arrived(calls'[i]), 1, k - 1))
       /\ (Blocked(calls[i]) /\ calls'[i].pc = "reading") =>
            /\ Blocked(calls'[i])
            /\ HeadLine(calls'[i].textBuffer) = HeadLine(calls[i].textBuffer)
            /\ calls'[i].assistantContent = calls[i].assistantContent
            /\ messages' = messages
       /\ (Blocked(calls[i]) /\ calls'[i].pc = "done" /\ toast' # MsgRead) =>
            /\ calls'[i].outcome = "success"
            /\ toast' = NoToast
            /\ messages' = messages]_vars

\* the send succeeded with "b" alone: the line of "a" came after a line that
\* does not parse
C18_Witness ==
  \E i \in DOMAIN calls :
    /\ calls[i].pc = "done" /\ calls[i].outcome = "success"
    /\ calls[i].stream = StreamOf(<<LineB, LineBad \o <<CR>>, LineA>>)
    /\ messages[Len(messages)] = AssistantMessage(<<"b">>)
    /\ ~isLoading

\* C16: the step in which a send returns after its stream ended clears the
\* selected image and leaves the transcript ending with the user message of the
\* send and the assistant message that holds the accumulated text, which may be
\* empty; the step in which a send returns after a failure leaves the selected
\* image as it is.
C16_SuccessClearsImage ==
  [][\A i \in DOMAIN calls :
       (calls[i].pc # "done" /\ calls'[i].pc = "done") =>
         IF calls'[i].outcome = "success"
         THEN /\ selectedImage' = Null
              /\ Len(messages') >= 2
              /\ messages'[Len(messages') - 1] = calls[i].userMessage
              /\ messages'[Len(messages')] = AssistantMessage(calls[i].assistantContent)
              /\ toast' = NoToast
         ELSE selectedImage' = selectedImage]_vars

\* a send succeeded on a body without any fragment: the answer is empty
C16_Witness ==
  \E i \in DOMAIN calls :
    /\ calls[i].pc = "done" /\ calls[i].outcome = "success"
    /\ selectedImage = Null
    /\ messages = <<calls[i].userMessage, AssistantMessage(<<>>)>>

(***************************************************************************)
(* Further properties of the send orchestration, checked under Spec.       *)
(***************************************************************************)
\* C15: a handleSend with an image selected runs while idle and, in the one step
\* that ends at the fetch, appends the user message with the selected image and
\* then an assistant placeholder without content, empties the input and sets
\* the loading flag.
C15_SendAppendsTurn ==
  [][\A trigger \in {"click", "enter"} :
       (handleSend(trigger) /\ selectedImage # Null) =>
         /\ ~isLoading
         /\ Len(messages') = Len(messages) + 2
         /\ SubSeq(messages', 1, Len(messages)) = messages
         /\ messages'[Len(messages) + 1].role = "user"
         /\ messages'[Len(messages) + 1].imageUrl = selectedImage
         /\ messages'[Len(messages) + 2] =
              [role |-> "assistant", content |-> <<>>, imageUrl |-> NoImage]
         /\ input' = <<>>
         /\ isLoading'
         /\ Len(calls') = Len(calls) + 1
         /\ calls'[Len(calls')].pc = "fetching"]_vars

\* the send of a second turn, with typed text, is at its fetch
C15_Witness ==
  /\ Len(calls) = 2 /\ calls[2].pc = "fetching"
  /\ Len(messages) = 4
  /\ messages[3].role = "user" /\ messages[3].imageUrl \in Images
  /\ messages[3].content = <<"h", "i">>
  /\ messages[4].role = "assistant" /\ messages[4].content = <<>>
  /\ input = <<>> /\ isLoading

\* the sends that returned with the given outcome
Returned(outcome) ==
  {i \in DOMAIN calls : calls[i].pc = "done" /\ calls[i].outcome = outcome}

\* C19: the transcript does not start with an assistant message, has no two
\* assistant messages in a row, its user messages carry an image and its
\* assistant messages none, and while no send is in flight it holds two
\* messages for every send that succeeded and one for every send that failed.
C19_TranscriptShape ==
  /\ messages # <<>> => messages[1].role = "user"
  /\ \A k \in 1..(Len(messages) - 1) :
       messages[k].role = "assistant" => messages[k + 1].role = "user"
  /\ \A k \in DOMAIN messages :
       IF messages[k].role = "user"
       THEN messages[k].imageUrl \in Images
       ELSE messages[k].role = "assistant" /\ messages[k].imageUrl = NoImage
  /\ InFlight = {} =>
       Len(messages) = 2 * Cardinality(Returned("success")) + Cardinality(Returned("failed"))

\* a turn that failed is followed by a turn that succeeded: user, user, assistant
C19_Witness ==
  /\ InFlight = {}
  /\ Len(calls) = 2 /\ calls[1].outcome = "failed" /\ calls[2].outcome = "success"
  /\ Len(messages) = 3
  /\ messages[2].role = "user" /\ messages[3].role = "assistant"

====
